---- MODULE Spec2Model ----
(***************************************************************************)
(* Model of app.py, the launcher of the career chatbot: main() loads the   *)
(* environment file, builds a ChatbotConfig, builds a CareerChatbot from   *)
(* it and calls launch_interface().                                        *)
(*                                                                         *)
(* The process environment (os.environ) is a dict, modelled as a function  *)
(* whose DOMAIN is the set of variables that are set.  The empty string is *)
(* a value like any other: a variable set to "" is in the DOMAIN.          *)
(*                                                                         *)
(* load_dotenv() is called with no arguments, so it runs with              *)
(* python-dotenv's defaults: override=False, and a missing .env file is    *)
(* not an error.  Every call main() makes may raise; main() has no         *)
(* try/except, so an exception ends the run.                               *)
(***************************************************************************)
EXTENDS Naturals, Sequences, FiniteSets

VARIABLES env, envFile, env0, pc, config, chatbot, trace, raisedIn

vars == <<env, envFile, env0, pc, config, chatbot, trace, raisedIn>>

----------------------------------------------------------------------------
(* Bounds of the model *)

\* how many of UserNames are used as non-empty values of a variable
MaxNames == 2

UserNames == <<"octocat", "ryan-griego", "hubot", "monalisa">>

\* the environment variables the model tracks
Keys == {"GITHUB_USERNAME", "OPENAI_API_KEY"}

\* values a variable may be set to: the empty string and some names
Values == {""} \cup {UserNames[i] : i \in 1..MaxNames}

\* all dicts from a subset of Keys to Values
Dicts == UNION {[S -> Values] : S \in SUBSET Keys}

EmptyDict == [k \in {} |-> ""]

\* the .env file: absent, or present and defining some variables
EnvFiles == {[exists |-> FALSE, vars |-> EmptyDict]}
              \cup {[exists |-> TRUE, vars |-> d] : d \in Dicts}

----------------------------------------------------------------------------
(* The program *)

\* the calls of main(), in line order
MainSteps == <<"load_dotenv", "ChatbotConfig", "CareerChatbot", "launch_interface">>

\* load_dotenv(override=True): the file's definitions win
load_dotenv_override(e, f) ==
    [k \in DOMAIN e \cup DOMAIN f.vars |->
        IF k \in DOMAIN f.vars THEN f.vars[k] ELSE e[k]]

\* load_dotenv(): every variable the file defines and the process
\* environment does not have is set; variables already set are kept
load_dotenv(e, f) ==
    [k \in DOMAIN e \cup DOMAIN f.vars |->
        IF k \in DOMAIN e THEN e[k] ELSE f.vars[k]]

\* a loader that insists on its file
DotenvRaisesStrict(f) == TRUE

\* load_dotenv() can raise only while reading a file that exists (unreadable
\* or undecodable); without a file it returns False
DotenvRaises(f) == f.exists

\* os.getenv with the default ignored
getenvNoDefault(e, key, default) ==
    IF key \in DOMAIN e THEN e[key] ELSE ""

\* a hard-coded user name
getenvIgnored(e, key, default) == default

\* os.getenv(key, default): the default is used only when key is not set
getenv(e, key, default) ==
    IF key \in DOMAIN e THEN e[key] ELSE default

\* the name taken from the environment
ConfigNameFromEnv ==
    IF "GITHUB_USERNAME" \in DOMAIN env THEN env["GITHUB_USERNAME"] ELSE "Ryan Griego"

ConfigName == "Ryan Griego"

DefaultGithubUsername == "ryan-griego"

\* ChatbotConfig(name=..., github_username=...): the value holds its arguments
ChatbotConfig(name, github_username) ==
    [name |-> name, github_username |-> github_username]

\* CareerChatbot(config): the handle holds the configuration it was given
CareerChatbot(c) == [config |-> c]

\* an exception swallowed by a handler: the run goes on with the next line
RaiseCaught(step) ==
    /\ raisedIn' = step
    /\ pc' = CASE step = "load_dotenv"      -> "ChatbotConfig"
               [] step = "ChatbotConfig"    -> "CareerChatbot"
               [] step = "CareerChatbot"    -> "launch_interface"
               [] OTHER                     -> "returned"

\* an exception raised by a call of main(): nothing catches it
Raise(step) ==
    /\ raisedIn' = step
    /\ pc' = "raised"

Init ==
    /\ env \in Dicts
    /\ envFile \in EnvFiles
    /\ env0 = env
    /\ pc = "load_dotenv"
    /\ config = <<>>
    /\ chatbot = <<>>
    /\ trace = <<>>
    /\ raisedIn = ""

\* the environment load left out: the run starts at the configuration
LoadDotenvSkipped ==
    /\ pc = "load_dotenv"
    /\ pc' = "ChatbotConfig"
    /\ UNCHANGED <<env, envFile, env0, config, chatbot, trace, raisedIn>>

\* line 11
LoadDotenv ==
    /\ pc = "load_dotenv"
    /\ env' = load_dotenv(env, envFile)
    /\ trace' = Append(trace, "load_dotenv")
    /\ pc' = "ChatbotConfig"
    /\ UNCHANGED <<envFile, env0, config, chatbot, raisedIn>>

LoadDotenvRaises ==
    /\ pc = "load_dotenv"
    /\ DotenvRaises(envFile)
    /\ trace' = Append(trace, "load_dotenv")
    /\ Raise("load_dotenv")
    /\ UNCHANGED <<env, envFile, env0, config, chatbot>>

\* lines 14-17
CreateConfig ==
    /\ pc = "ChatbotConfig"
    /\ config' = <<ChatbotConfig(ConfigName,
                       getenv(env, "GITHUB_USERNAME", DefaultGithubUsername))>>
    /\ trace' = Append(trace, "ChatbotConfig")
    /\ pc' = "CareerChatbot"
    /\ UNCHANGED <<env, envFile, env0, chatbot, raisedIn>>

CreateConfigRaises ==
    /\ pc = "ChatbotConfig"
    /\ trace' = Append(trace, "ChatbotConfig")
    /\ Raise("ChatbotConfig")
    /\ UNCHANGED <<env, envFile, env0, config, chatbot>>

\* the chatbot built from a configuration made afresh
InitChatbotRebuild ==
    /\ pc = "CareerChatbot"
    /\ config' = <<ChatbotConfig(ConfigName, DefaultGithubUsername)>>
    /\ chatbot' = <<CareerChatbot(config'[1])>>
    /\ trace' = Append(trace, "CareerChatbot")
    /\ pc' = "launch_interface"
    /\ UNCHANGED <<env, envFile, env0, raisedIn>>

\* line 20
InitChatbot ==
    /\ pc = "CareerChatbot"
    /\ chatbot' = <<CareerChatbot(config[1])>>
    /\ trace' = Append(trace, "CareerChatbot")
    /\ pc' = "launch_interface"
    /\ UNCHANGED <<env, envFile, env0, config, raisedIn>>

InitChatbotRaises ==
    /\ pc = "CareerChatbot"
    /\ trace' = Append(trace, "CareerChatbot")
    /\ Raise("CareerChatbot")
    /\ UNCHANGED <<env, envFile, env0, config, chatbot>>

\* line 21: the call is entered and blocks while the interface is served
LaunchInterface ==
    /\ pc = "launch_interface"
    /\ trace' = Append(trace, "launch_interface")
    /\ pc' = "serving"
    /\ UNCHANGED <<env, envFile, env0, config, chatbot, raisedIn>>

\* the interface is stopped: launch_interface() returns and main() ends
LaunchReturns ==
    /\ pc = "serving"
    /\ pc' = "returned"
    /\ UNCHANGED <<env, envFile, env0, config, chatbot, trace, raisedIn>>

LaunchRaises ==
    /\ pc = "serving"
    /\ Raise("launch_interface")
    /\ UNCHANGED <<env, envFile, env0, config, chatbot, trace>>

Next ==
    \/ LoadDotenv
    \/ LoadDotenvRaises
    \/ CreateConfig
    \/ CreateConfigRaises
    \/ InitChatbot
    \/ InitChatbotRaises
    \/ LaunchInterface
    \/ LaunchReturns
    \/ LaunchRaises

Spec == Init /\ [][Next]_vars

----------------------------------------------------------------------------
(* Helpers of the properties *)

IsPrefix(s, t) ==
    /\ Len(s) <= Len(t)
    /\ \A i \in 1..Len(s) : s[i] = t[i]

Count(s, x) == Cardinality({i \in 1..Len(s) : s[i] = x})

Built == config # <<>>

TypeOK ==
    /\ env \in Dicts
    /\ envFile \in EnvFiles
    /\ env0 \in Dicts
    /\ pc \in {"load_dotenv", "ChatbotConfig", "CareerChatbot",
               "launch_interface", "serving", "returned", "raised"}
    /\ Len(config) <= 1
    /\ Len(chatbot) <= 1
    /\ raisedIn \in {""} \cup {MainSteps[i] : i \in 1..4}

GH == "GITHUB_USERNAME"

----------------------------------------------------------------------------
(* Properties *)

\* C1: whenever GITHUB_USERNAME is set to the empty string when the
\* configuration is built, the github_username passed to ChatbotConfig is
\* the default "ryan-griego".
C1_EmptyFallsBackToDefault ==
    (Built /\ GH \in DOMAIN env /\ env[GH] = "")
        => config[1].github_username = "ryan-griego"

\* C2: whenever GITHUB_USERNAME is set to a non-empty string S when the
\* configuration is built, the github_username passed to ChatbotConfig is S.
C2_NonEmptyIsUsed ==
    (Built /\ GH \in DOMAIN env /\ env[GH] # "")
        => config[1].github_username = env[GH]

C2_Witness ==
    /\ Built
    /\ GH \in DOMAIN env0
    /\ env0[GH] = "octocat"
    /\ config[1].github_username = "octocat"

\* C3: whenever GITHUB_USERNAME is neither in the process environment main()
\* starts with nor defined by the environment file, the github_username
\* passed to ChatbotConfig is "ryan-griego".
C3_UnsetGivesDefault ==
    (Built /\ GH \notin DOMAIN env0 /\ GH \notin DOMAIN envFile.vars)
        => config[1].github_username = "ryan-griego"

C3_Witness ==
    /\ Built
    /\ GH \notin DOMAIN env0
    /\ envFile.exists
    /\ GH \notin DOMAIN envFile.vars
    /\ DOMAIN envFile.vars # {}
    /\ config[1].github_username = "ryan-griego"

\* C4: the name passed to ChatbotConfig is the literal "Ryan Griego" whatever
\* the process environment and the environment file contain.
C4_NameIsLiteral ==
    Built => config[1].name = "Ryan Griego"

C4_Witness ==
    /\ Built
    /\ config[1].name = "Ryan Griego"
    /\ GH \in DOMAIN env
    /\ env[GH] = "octocat"
    /\ envFile.exists
    /\ DOMAIN envFile.vars = Keys

\* C5: the calls of main() happen in the order load_dotenv, ChatbotConfig,
\* CareerChatbot, launch_interface, each at most once; a run that reaches
\* launch_interface has made all four exactly once, and launch_interface is
\* entered only with a chatbot built from the configuration.
C5_LinearOrder ==
    /\ IsPrefix(trace, MainSteps)
    /\ Count(trace, "launch_interface") <= 1
    /\ (pc \in {"serving", "returned"} =>
            /\ trace = MainSteps
            /\ \A i \in 1..4 : Count(trace, MainSteps[i]) = 1)
    /\ (Count(trace, "launch_interface") > 0 =>
            /\ Built
            /\ chatbot # <<>>
            /\ chatbot[1].config = config[1])

C5_Witness ==
    /\ pc = "returned"
    /\ raisedIn = ""
    /\ trace = MainSteps

\* C6: a call of main() that raises ends the run: the raising call is the
\* last call made, the run is in the failed state, and no step follows.
C6_FailFast ==
    /\ [](raisedIn # "" =>
            /\ pc = "raised"
            /\ trace # <<>>
            /\ trace[Len(trace)] = raisedIn
            /\ IsPrefix(trace, MainSteps)
            /\ (raisedIn \in {"load_dotenv", "ChatbotConfig", "CareerChatbot"}
                    => Count(trace, "launch_interface") = 0))
    /\ [][raisedIn # "" => (pc' = pc /\ trace' = trace)]_vars

C6_Witness ==
    /\ pc = "raised"
    /\ raisedIn = "CareerChatbot"
    /\ Built
    /\ chatbot = <<>>
    /\ Count(trace, "launch_interface") = 0

\* C7: without an environment file the load step does not raise, leaves the
\* process environment as it was and hands over to the configuration step.
C7_NoFileLoadSucceeds ==
    [][(pc = "load_dotenv" /\ ~envFile.exists) =>
            /\ pc' = "ChatbotConfig"
            /\ env' = env
            /\ raisedIn' = ""]_vars

C7_Witness ==
    /\ ~envFile.exists
    /\ pc = "ChatbotConfig"
    /\ env = env0
    /\ DOMAIN env # {}
    /\ raisedIn = ""

\* C9: the configuration is built at most once, it is never written after it
\* was built, and the chatbot is constructed from that very value.
C9_ConfigFrame ==
    /\ [](Count(trace, "ChatbotConfig") <= 1)
    /\ [](chatbot # <<>> => (Built /\ chatbot[1].config = config[1]))
    /\ [][Built => config' = config]_vars

C9_Witness ==
    /\ pc = "serving"
    /\ Count(trace, "ChatbotConfig") = 1
    /\ chatbot[1].config = config[1]
    /\ config[1].github_username = "octocat"

\* C10: a non-empty GITHUB_USERNAME of the process environment wins over the
\* environment file, and a non-empty GITHUB_USERNAME of the environment file
\* wins over the default when the process environment has none.
C10_Precedence ==
    Built =>
        /\ (GH \in DOMAIN env0 /\ env0[GH] # "")
                => config[1].github_username = env0[GH]
        /\ (GH \notin DOMAIN env0 /\ GH \in DOMAIN envFile.vars
                /\ envFile.vars[GH] # "")
                => config[1].github_username = envFile.vars[GH]

C10_Witness ==
    /\ Built
    /\ GH \notin DOMAIN env0
    /\ GH \in DOMAIN envFile.vars
    /\ envFile.vars[GH] = "octocat"
    /\ config[1].github_username = "octocat"

====
